---------------------------- MODULE Spec2Model ----------------------------
(***************************************************************************)
(* A model of src/libs/BouncerProvider.js (kiwiirc): the engine that keeps *)
(* the client's networks and buffers in step with a bouncer (relay).       *)
(*                                                                         *)
(* The object's fields are the variables.  Every method of the class is an *)
(* operator that takes the fields as one record (the "store") and returns  *)
(* the store it leaves behind, so that a handler that calls other methods  *)
(* is one action.  An await is the boundary between two actions.           *)
(***************************************************************************)
EXTENDS Integers, Sequences, FiniteSets, TLC

VARIABLES
    networks,           \* state.networks: the ordered list of networks
    controllerNetwork,  \* this.controllerNetwork: an index of networks, or Null
    bnc,                \* this.bnc
    listening,          \* whether listenToState() has installed its handlers
    networksSnapshot,   \* this.networksSnapshot: bncname -> snapshot record
    debounced,          \* one debounce timer per $watch installed by monitorNetworkChanges
    pending,            \* relay round trips that have not answered yet
    logins,             \* the onNetworkMotd calls made so far
    out,                \* what the last handler sent to the relay
    hist,               \* history: what has been sent and answered, per network
    ev                  \* the last operation and what it returned

vars == <<networks, controllerNetwork, bnc, listening, networksSnapshot,
          debounced, pending, logins, out, hist, ev>>

-----------------------------------------------------------------------------
(* Bounds of the model *)

MaxBuffers == 3
MaxRemote == 2
MaxLogins == 2
MaxCtlActions == 9
MaxSaveActions == 3
MaxNameActions == 4
MaxLoginNetworks == 3
MaxPieces == 3
MaxMergeActions == 3
MaxConnectActions == 4

-----------------------------------------------------------------------------
(* Values *)

Null == 0

\* A password is a string in which ':' and '/' matter: it is modelled as the
\* sequence of its pieces, the separators being pieces of their own.
\* JavaScript's undefined, where such a string is expected:
UndefinedStr == <<"\\undefined">>

\* A buffer name is the sequence of its character codes ("#a" is <<35, 97>>).
Hash == 35
Star == 42
UpperA == 65
UpperZ == 90
CaseOffset == 32
LowerA == 97
LowerB == 98

Indices(s) == 1..Len(s)

Range(s) == {s[i] : i \in Indices(s)}

\* Array.prototype.indexOf / _.find: the first index whose element satisfies
\* P, or Null
First(s, P(_)) ==
    IF \E i \in Indices(s) : P(s[i])
    THEN CHOOSE i \in Indices(s) : P(s[i]) /\ \A j \in 1..(i - 1) : ~P(s[j])
    ELSE Null

RemoveAt(s, k) == [i \in 1..(Len(s) - 1) |-> IF i < k THEN s[i] ELSE s[i + 1]]

-----------------------------------------------------------------------------
(* The constructor *)

InitBnc ==
    [enabled |-> FALSE, username |-> <<>>, password |-> <<>>, server |-> "",
     port |-> 6667, tls |-> FALSE, direct |-> FALSE, path |-> "",
     registered |-> FALSE]

\* The state store's record of a network, as state.addNetwork(name, nick,
\* serverInfo) makes it; index i of state.networks is its identity.
NetworkRec(name, nick, info) ==
    [name |-> name, nick |-> nick,
     server |-> info.server, port |-> info.port, tls |-> info.tls,
     password |-> info.password, bncname |-> info.bncname,
     username |-> info.username,
     direct |-> FALSE, path |-> "", hidden |-> FALSE,
     state |-> "disconnected",
     motd |-> FALSE,     \* irc.motd has been emitted on this connection
     cap |-> FALSE,      \* ircClient.network.cap.isEnabled('bouncer')
     tag |-> "",         \* ircClient.bnc.tags().network; hasNetwork() is tag # ""
     options |-> [host |-> info.server, port |-> info.port, tls |-> info.tls,
                  password |-> info.password, path |-> ""],
     buffers |-> <<>>]

EmptyInfo ==
    [server |-> "", port |-> 6667, tls |-> FALSE, password |-> <<>>,
     bncname |-> "", username |-> ""]

hasNetwork(network) == network.tag # ""

capBouncer(network) == network.cap

-----------------------------------------------------------------------------
(* getController *)

\* The loop of getController: the first network, in the list's order, that is
\* connected and has the bouncer capability
ScanController(nets) ==
    First(nets, LAMBDA n : n.state = "connected" /\ capBouncer(n))

\* The store getController() leaves; what it returns is the store's
\* controllerNetwork.
getController(S) ==
    IF S.controllerNetwork # Null
       /\ S.networks[S.controllerNetwork].state = "connected"
    THEN S
    ELSE [S EXCEPT !.controllerNetwork = ScanController(S.networks)]

-----------------------------------------------------------------------------
(* The snapshot store and saveState *)

SnapshotOf(network) ==
    [name |-> network.bncname, host |-> network.server, port |-> network.port,
     tls |-> network.tls, password |-> network.password, nick |-> network.nick,
     username |-> network.username]

\* networks.forEach of snapshotCurrentNetworks: a network with no bncname is
\* passed over; of two networks with one bncname the later one's entry stays.
SnapshotKeys(nets) == {nets[i].bncname : i \in Indices(nets)} \ {""}

snapshotCurrentNetworks(S) ==
    [S EXCEPT !.networksSnapshot =
        [b \in SnapshotKeys(S.networks) |->
            LET last == CHOOSE i \in Indices(S.networks) :
                            /\ S.networks[i].bncname = b
                            /\ \A j \in (i + 1)..Len(S.networks) :
                                   S.networks[j].bncname # b
            IN SnapshotOf(S.networks[last])]]

TagFields == {"host", "port", "tls", "password", "nick", "user"}

\* The network's current value of a field of the update command
Current(network, f) ==
    CASE f = "host" -> network.server
      [] f = "port" -> network.port
      [] f = "tls" -> network.tls
      [] f = "password" -> network.password
      [] f = "nick" -> network.nick
      [] f = "user" -> network.username

\* The snapshot's value of the same field (the snapshot calls user "username")
Snapshotted(snapshot, f) ==
    CASE f = "host" -> snapshot.host
      [] f = "port" -> snapshot.port
      [] f = "tls" -> snapshot.tls
      [] f = "password" -> snapshot.password
      [] f = "nick" -> snapshot.nick
      [] f = "user" -> snapshot.username

HasSnapshot(S, bncName) == bncName \in DOMAIN S.networksSnapshot

\* The diff with "user" read from the snapshot under the key of the command,
\* where the snapshot has none: user differs always
ChangedFieldsUserKey(S, network) ==
    {f \in TagFields :
        \/ ~HasSnapshot(S, network.bncname)
        \/ f = "user"
        \/ Current(network, f) # Snapshotted(S.networksSnapshot[network.bncname], f)}

\* The six "if (x !== snapshot.x) tags.x = x" of saveState; with no snapshot
\* entry ("|| {}") every snapshot field is undefined and every field differs.
ChangedFields(S, network) ==
    {f \in TagFields :
        \/ ~HasSnapshot(S, network.bncname)
        \/ Current(network, f) # Snapshotted(S.networksSnapshot[network.bncname], f)}

TagsOf(S, network) ==
    [f \in ChangedFields(S, network) |-> Current(network, f)]

\* The test without its nick: tags.host && tags.port
ReadyWithoutNick(tags) ==
    /\ "host" \in DOMAIN tags /\ tags["host"] # ""
    /\ "port" \in DOMAIN tags /\ tags["port"] # 0

\* tags.host && tags.port && tags.nick
ReadyToCreate(tags) ==
    /\ "host" \in DOMAIN tags /\ tags["host"] # ""
    /\ "port" \in DOMAIN tags /\ tags["port"] # 0
    /\ "nick" \in DOMAIN tags /\ tags["nick"] # ""

\* One turn of the networks.forEach of saveState, for the network at index i
saveNetworkStep(S, i, controller) ==
    LET network == S.networks[i]
        bncName == network.bncname
        hasSnap == HasSnapshot(S, bncName)
        tags == TagsOf(S, network)
    IN IF getController(S).controllerNetwork = i /\ ~hasNetwork(network)
       THEN getController(S)
       ELSE IF ~hasSnap /\ ReadyToCreate(tags)
       THEN [getController(S) EXCEPT
                !.networks[i].bncname = network.name,
                !.out = Append(@, [cmd |-> "addNetwork", via |-> controller,
                                   net |-> i, name |-> network.name,
                                   tags |-> tags])]
       ELSE IF hasSnap
       THEN [getController(S) EXCEPT
                !.out = Append(@, [cmd |-> "saveNetwork", via |-> controller,
                                   net |-> i, name |-> bncName, tags |-> tags])]
       ELSE getController(S)

RECURSIVE saveLoop(_, _, _)
saveLoop(S, i, controller) ==
    IF i > Len(S.networks) THEN S
    ELSE saveLoop(saveNetworkStep(S, i, controller), i + 1, controller)

\* saveState without its last line, the refresh of the snapshot store
saveStateNoRefresh(S) ==
    LET S1 == getController(S)
        controller == S1.controllerNetwork
    IN IF controller = Null THEN S1
       ELSE saveLoop(S1, 1, controller)

saveState(S) ==
    LET S1 == getController(S)
        controller == S1.controllerNetwork
    IN IF controller = Null THEN S1
       ELSE snapshotCurrentNetworks(saveLoop(S1, 1, controller))

\* _.debounce(saveState, 2000) under $watch('networks', ..., {deep: true})
DebounceWait == 2000
Idle == -1

monitorNetworkChanges(S) ==
    [snapshotCurrentNetworks(S) EXCEPT !.debounced = Append(@, Idle)]

-----------------------------------------------------------------------------
(* Buffers and syncBncNetwork *)

\* String.prototype.toLowerCase on a buffer name
toLowerCase(name) ==
    [i \in Indices(name) |->
        IF name[i] >= UpperA /\ name[i] <= UpperZ THEN name[i] + CaseOffset
        ELSE name[i]]

isChannel(buffer) == buffer.name # <<>> /\ buffer.name[1] = Hash

isSpecial(buffer) == buffer.name # <<>> /\ buffer.name[1] = Star

isQuery(buffer) == ~isChannel(buffer) /\ ~isSpecial(buffer)

NewBuffer(name) ==
    [name |-> name, enabled |-> TRUE, joined |-> FALSE, last_read |-> 0,
     topic |-> ""]

\* state.addBuffer(networkid, name): the network's buffer of that name,
\* compared without case, or a new one at the end of the list.  The result is
\* <<the buffer list, the buffer's index>>.
addBuffer(buffers, name) ==
    LET found == First(buffers,
                       LAMBDA b : toLowerCase(b.name) = toLowerCase(name))
    IN IF found # Null THEN <<buffers, found>>
       ELSE <<Append(buffers, NewBuffer(name)), Len(buffers) + 1>>

\* state.removeBuffer(buffer): the buffer is cut out of the network's list,
\* in place
removeBuffer(buffers, k) == RemoveAt(buffers, k)

\* (new Date(seen)).getTime(): seen is a time value in milliseconds, far
\* inside the range of Date, and getTime() gives it back as a number
DateGetTime(seen) == seen

\* One turn of buffers.forEach (lines 131-149): S is the store, i the network
syncOneBuffer(S, i, buffer) ==
    LET network == S.networks[i]
        added == addBuffer(network.buffers, buffer.name)
        k == added[2]
        old == added[1][k]
        newBuffer == [old EXCEPT
                        !.enabled = buffer.joined,
                        !.joined = buffer.joined,
                        !.last_read = IF buffer.seen # 0
                                      THEN DateGetTime(buffer.seen) ELSE @,
                        !.topic = buffer.topic]
        names == network.state = "connected" /\ isChannel(newBuffer)
                 /\ newBuffer.joined
    IN [S EXCEPT
          !.networks[i].buffers = [added[1] EXCEPT ![k] = newBuffer],
          !.out = IF names
                  THEN Append(@, [cmd |-> "NAMES", via |-> i,
                                  name |-> newBuffer.name])
                  ELSE @]

RECURSIVE syncAddLoop(_, _, _)
syncAddLoop(S, i, buffers) ==
    IF buffers = <<>> THEN S
    ELSE syncAddLoop(syncOneBuffer(S, i, Head(buffers)), i, Tail(buffers))

OnBouncer(buffers, clientBuffer) ==
    \E j \in Indices(buffers) :
        toLowerCase(buffers[j].name) = toLowerCase(clientBuffer.name)

\* bncNetwork.buffers.forEach (lines 152-164).  forEach reads the length
\* once (len) and then visits index k only while the array still has it;
\* removeBuffer shortens the array under it.
RECURSIVE syncRemoveLoop(_, _, _, _, _)
syncRemoveLoop(S, i, buffers, k, len) ==
    LET local == S.networks[i].buffers
    IN IF k > len THEN S
       ELSE IF k > Len(local) THEN syncRemoveLoop(S, i, buffers, k + 1, len)
       ELSE IF ~isChannel(local[k]) /\ ~isQuery(local[k])
       THEN syncRemoveLoop(S, i, buffers, k + 1, len)
       ELSE IF ~OnBouncer(buffers, local[k])
       THEN syncRemoveLoop(
                [S EXCEPT !.networks[i].buffers = removeBuffer(local, k)],
                i, buffers, k + 1, len)
       ELSE syncRemoveLoop(S, i, buffers, k + 1, len)

\* syncBncNetwork after its await: buffers is what getBuffers answered
syncBncNetworkApply(S, i, buffers) ==
    LET S1 == syncAddLoop(S, i, buffers)
    IN syncRemoveLoop(S1, i, buffers, 1, Len(S1.networks[i].buffers))

\* syncBncNetwork up to its await: the request leaves through the network's
\* own client.  cont says who awaits it.
syncBncNetworkCall(S, i, login, cont) ==
    [S EXCEPT !.pending = @ \cup
        {[kind |-> "getBuffers", net |-> i, login |-> login, cont |-> cont,
          name |-> S.networks[i].bncname]}]

-----------------------------------------------------------------------------
(* listenToState: the network.new handler, and state.addNetwork that fires it *)

NetworkName(currentNum) == "Network" \o ToString(currentNum)

\* The two _.find of one turn of the while loop (lines 347-352)
FindExisting(nets, currentNum) ==
    LET byName == First(nets, LAMBDA n : n.name = NetworkName(currentNum))
    IN IF byName # Null THEN byName
       ELSE First(nets, LAMBDA n : n.bncname = NetworkName(currentNum))

\* The while loop of the network.new handler, for the network at index i
RECURSIVE nameLoop(_, _, _)
nameLoop(S, i, currentNum) ==
    LET existingNet == FindExisting(S.networks, currentNum)
    IN IF existingNet = Null \/ existingNet = i
       THEN [S EXCEPT !.networks[i].name = NetworkName(currentNum)]
       ELSE nameLoop(S, i, currentNum + 1)

onNetworkNew(S, i) ==
    IF S.networks[i].bncname = "" THEN nameLoop(S, i, 1) ELSE S

\* state.addNetwork: the network joins the end of the list and network.new is
\* emitted; the handler is there once listenToState() has run.
addNetwork(S, name, nick, info) ==
    LET S1 == [S EXCEPT !.networks = Append(@, NetworkRec(name, nick, info))]
    IN IF S.listening THEN onNetworkNew(S1, Len(S1.networks)) ELSE S1

-----------------------------------------------------------------------------
(* The login sequence: onNetworkMotd, initAndAddNetworks, addNetworkToState *)

\* String.prototype.split(sep) on a string given by its pieces
RECURSIVE Split(_, _)
Split(str, sep) ==
    IF \A k \in Indices(str) : str[k] # sep THEN <<str>>
    ELSE LET k == CHOOSE k \in Indices(str) :
                    str[k] = sep /\ \A j \in 1..(k - 1) : str[j] # sep
         IN <<SubSeq(str, 1, k - 1)>> \o Split(SubSeq(str, k + 1, Len(str)), sep)

\* let [username, password] = network.password.split(':');
\* username = username.split('/')[0];
LoginUsername(password) == Split(Split(password, ":")[1], "/")[1]

LoginPassword(password) ==
    IF Len(Split(password, ":")) >= 2 THEN Split(password, ":")[2]
    ELSE UndefinedStr

\* state.getNetworkFromBncName(name)
getNetworkFromBncName(nets, name) == First(nets, LAMBDA n : n.bncname = name)

\* addNetworkToState up to its await
addNetworkToState(S, bncNet, login) ==
    LET found == getNetworkFromBncName(S.networks, bncNet.name)
        S1 == IF found # Null THEN S
              ELSE addNetwork(S, bncNet.name, bncNet.nick,
                              [server |-> bncNet.host, port |-> bncNet.port,
                               tls |-> bncNet.tls, password |-> bncNet.password,
                               bncname |-> bncNet.name, username |-> bncNet.user])
        net == IF found # Null THEN found ELSE Len(S1.networks)
    IN syncBncNetworkCall(S1, net, login, "add")

RECURSIVE addNetworksLoop(_, _, _)
addNetworksLoop(S, bncNetworks, login) ==
    IF bncNetworks = <<>> THEN S
    ELSE addNetworksLoop(addNetworkToState(S, Head(bncNetworks), login),
                         Tail(bncNetworks), login)

\* initAndAddNetworks up to its await (lines 96-108)
initAndAddNetworksCall(S, i, login) ==
    [S EXCEPT
        !.bnc.registered = TRUE,
        !.networks[i].hidden = ~hasNetwork(S.networks[i]),
        !.pending = @ \cup {[kind |-> "getNetworks", net |-> i, login |-> login,
                             cont |-> "init", name |-> ""]}]

\* initAndAddNetworks after its await (lines 109-124)
initAndAddNetworksApply(S, i, login, bncNetworks) ==
    LET S1 == addNetworksLoop(S, bncNetworks, login)
        network == S1.networks[i]
        S2 == [S1 EXCEPT
                 !.bnc.username = LoginUsername(network.password),
                 !.bnc.password = LoginPassword(network.password),
                 !.bnc.server = network.server,
                 !.bnc.port = network.port,
                 !.bnc.tls = network.tls,
                 !.bnc.direct = network.direct,
                 !.bnc.path = network.path,
                 !.bnc.enabled = TRUE]
    IN monitorNetworkChanges(S2)

\* onNetworkMotd up to its first await
onNetworkMotd(S, i, login) ==
    LET network == S.networks[i]
        S1 == IF hasNetwork(network) /\ network.bncname = ""
              THEN [S EXCEPT !.networks[i].bncname = network.tag]
              ELSE S
    IN IF ~S.bnc.enabled THEN S
       ELSE IF ~capBouncer(network) THEN S
       ELSE IF hasNetwork(network) THEN syncBncNetworkCall(S1, i, login, "motd")
       ELSE initAndAddNetworksCall(S1, i, login)

\* The second irc.motd handler (lines 326-332)
onMotdWho(S, i) ==
    LET buffers == S.networks[i].buffers
        who == SelectSeq(buffers,
                         LAMBDA b : isChannel(b) /\ b.enabled /\ b.joined)
    IN [S EXCEPT !.out = @ \o [k \in Indices(who) |->
                                  [cmd |-> "WHO", via |-> i, name |-> who[k].name]]]

-----------------------------------------------------------------------------
(* enable, and the two network.connecting handlers of listenToState *)

rewriteConnections == TRUE

Truthy(str) == str # <<>> /\ str # UndefinedStr

enable(S, server, port, tls, direct, path) ==
    [S EXCEPT !.bnc.server = server,
              !.bnc.port = IF port = 0 THEN 6667 ELSE port,
              !.bnc.tls = tls,
              !.bnc.direct = direct,
              !.bnc.path = path,
              !.bnc.enabled = TRUE,
              !.listening = TRUE]

\* `${this.bnc.username}/${netname}:${this.bnc.password}`
TunnelPassword(username, netname, password) ==
    username \o <<"/", netname, ":">> \o password

\* The first handler (lines 291-310)
onConnectingRewrite(S, i) ==
    IF S.bnc.enabled /\ rewriteConnections
    THEN LET netname == S.networks[i].bncname
         IN [S EXCEPT
               !.networks[i].options.host = S.bnc.server,
               !.networks[i].options.port = S.bnc.port,
               !.networks[i].options.tls = S.bnc.tls,
               !.networks[i].options.password =
                   IF Truthy(S.bnc.password)
                   THEN TunnelPassword(S.bnc.username, netname, S.bnc.password)
                   ELSE @,
               !.networks[i].direct = S.bnc.direct,
               !.networks[i].options.path = S.bnc.path]
    ELSE S

\* The second handler (lines 311-325)
onConnectingSave(S, i) ==
    LET S1 == getController(S)
        controller == S1.controllerNetwork
        S2 == saveState(S1)
    IN IF controller = Null THEN S1
       ELSE IF S2.networks[i].bncname # ""
       THEN [S2 EXCEPT !.out = Append(@, [cmd |-> "BOUNCER connect",
                                          via |-> controller, net |-> i,
                                          name |-> S2.networks[i].bncname])]
       ELSE S2

\* The two handlers registered the other way round: save and connect first
onNetworkConnectingSaveFirst(S, i) ==
    IF S.listening THEN onConnectingRewrite(onConnectingSave(S, i), i) ELSE S

onNetworkConnecting(S, i) ==
    IF S.listening THEN onConnectingSave(onConnectingRewrite(S, i), i) ELSE S

-----------------------------------------------------------------------------
(* The state machine *)

Store ==
    [networks |-> networks, controllerNetwork |-> controllerNetwork,
     bnc |-> bnc, listening |-> listening,
     networksSnapshot |-> networksSnapshot, debounced |-> debounced,
     pending |-> pending, out |-> <<>>]

\* What $watch('networks', ..., {deep: true}) observes: the store's data, not
\* the IRC client behind a network
WatchView(nets) ==
    [i \in Indices(nets) |->
        [name |-> nets[i].name, nick |-> nets[i].nick,
         server |-> nets[i].server, port |-> nets[i].port, tls |-> nets[i].tls,
         password |-> nets[i].password, bncname |-> nets[i].bncname,
         username |-> nets[i].username, direct |-> nets[i].direct,
         hidden |-> nets[i].hidden, state |-> nets[i].state,
         buffers |-> nets[i].buffers]]

\* Each debounce timer after a handler: restarted when the handler changed
\* what the watch observes; a watch installed by the handler itself starts idle.
Changed(S) == WatchView(S.networks) # WatchView(networks)

Rearm(S) ==
    [k \in Indices(S.debounced) |->
        IF k <= Len(debounced) /\ Changed(S) THEN DebounceWait
        ELSE S.debounced[k]]

CreatedIn(sent) ==
    {sent[k].net : k \in {j \in Indices(sent) : sent[j].cmd = "addNetwork"}}

\* The history after a handler that left store S: the create-network commands
\* it sent
Sent(h, S) ==
    [h EXCEPT !.created = [i \in Indices(S.networks) |->
                              (IF i <= Len(@) THEN @[i] ELSE 0)
                              + (IF i \in CreatedIn(S.out) THEN 1 ELSE 0)],
              !.inflight = @ \cup CreatedIn(S.out)]

\* The handler leaves store S behind, history h and event e
Commit(S, h, e) ==
    /\ networks' = S.networks
    /\ controllerNetwork' = S.controllerNetwork
    /\ bnc' = S.bnc
    /\ listening' = S.listening
    /\ networksSnapshot' = S.networksSnapshot
    /\ debounced' = Rearm(S)
    /\ pending' = S.pending
    /\ out' = S.out
    /\ hist' = Sent(h, S)
    /\ ev' = e

Event(op, net) == [op |-> op, net |-> net, ret |-> Null, cached |-> Null,
                   login |-> Null, reply |-> <<>>, saved |-> "no"]

\* How a handler came by saveState(): it never called it ("no"), saveState
\* found no controller and returned ("noController"), or saveState ran.
Saved(S) == IF S.controllerNetwork = Null THEN "noController" ELSE "ran"

\* An event of the environment that calls nothing of the engine
Other == Event("other", Null)

InitHist ==
    [created |-> <<>>, reported |-> {}, actions |-> 0,
     acked |-> {}, inflight |-> {},
     lastSync |-> [net |-> Null, reply |-> <<>>]]

Init ==
    /\ networks = <<>>
    /\ controllerNetwork = Null
    /\ bnc = InitBnc
    /\ listening = FALSE
    /\ networksSnapshot = [b \in {} |-> Null]
    /\ debounced = <<>>
    /\ pending = {}
    /\ logins = <<>>
    /\ out = <<>>
    /\ hist = InitHist
    /\ ev = Event("new", Null)

RelayServer == "bnc.example"

\* The application turns relaying on: enable(server, port, tls, direct, path)
Enable ==
    /\ ~listening
    /\ \E tls \in BOOLEAN :
          Commit(enable(Store, RelayServer, 0, tls, FALSE, ""), hist,
                 Event("enable", Null))
    /\ UNCHANGED logins

\* A caller asks for the controller: getController()
GetController ==
    /\ LET S == getController(Store)
       IN Commit(S, hist,
                 [Event("getController", Null) EXCEPT
                     !.ret = S.controllerNetwork,
                     !.cached = controllerNetwork])
    /\ UNCHANGED logins

\* The history after one more action of the user
Acted(h) == [h EXCEPT !.actions = @ + 1]

\* The user adds a network: state.addNetwork(name, nick, serverInfo)
NewNetwork(limit, names, nicks, infos) ==
    /\ hist.actions < limit
    /\ \E name \in names, nick \in nicks, info \in infos :
          Commit(addNetwork(Store, name, nick, info), Acted(hist),
                 Event("network.new", Len(networks) + 1))
    /\ UNCHANGED logins

\* The user edits one field of a network in the state store
SetField(network, f, v) ==
    CASE f = "name" -> [network EXCEPT !.name = v]
      [] f = "server" -> [network EXCEPT !.server = v]
      [] f = "port" -> [network EXCEPT !.port = v]
      [] f = "tls" -> [network EXCEPT !.tls = v]
      [] f = "password" -> [network EXCEPT !.password = v]
      [] f = "nick" -> [network EXCEPT !.nick = v]
      [] f = "username" -> [network EXCEPT !.username = v]

EditNetwork(limit, f, values) ==
    /\ hist.actions < limit
    /\ \E i \in Indices(networks), v \in values :
          /\ SetField(networks[i], f, v) # networks[i]
          /\ Commit([Store EXCEPT !.networks[i] = SetField(@, f, v)],
                    Acted(hist), Other)
    /\ UNCHANGED logins

\* The relay gives a connection an upstream when its login password names a
\* network: "<user>/<network>:<secret>"
UpstreamOf(password) ==
    LET user == Split(Split(password, ":")[1], "/")
    IN IF Len(user) >= 2 /\ user[2] # <<>> THEN user[2][1] ELSE ""

\* The user connects network i: its client takes the network's connection
\* parameters, network.connecting is emitted, and the connection starts.
NetConnecting(limit) ==
    /\ hist.actions < limit
    /\ \E i \in Indices(networks) :
          /\ networks[i].state = "disconnected"
          /\ networks[i].server # ""
          /\ LET n == networks[i]
                 S0 == [Store EXCEPT !.networks[i].options =
                           [host |-> n.server, port |-> n.port, tls |-> n.tls,
                            password |-> n.password, path |-> n.path]]
                 S1 == onNetworkConnecting(S0, i)
             IN Commit([S1 EXCEPT !.networks[i].state = "connecting"],
                       Acted(hist),
                       [Event("network.connecting", i) EXCEPT
                           !.saved = IF listening /\ S1.controllerNetwork # Null
                                     THEN "ran" ELSE "no"])
    /\ UNCHANGED logins

\* The connection of network i registers; cap says whether the server granted
\* the bouncer capability.
NetConnected(caps) ==
    /\ \E i \in Indices(networks), cap \in caps :
          /\ networks[i].state = "connecting"
          /\ Commit([Store EXCEPT
                        !.networks[i].state = "connected",
                        !.networks[i].cap = cap,
                        !.networks[i].motd = FALSE,
                        !.networks[i].tag =
                            IF cap THEN UpstreamOf(networks[i].options.password)
                            ELSE ""],
                    hist, Other)
    /\ UNCHANGED logins

NetDisconnected(limit) ==
    /\ hist.actions < limit
    /\ \E i \in Indices(networks) :
          /\ networks[i].state # "disconnected"
          /\ Commit([Store EXCEPT !.networks[i].state = "disconnected"],
                    Acted(hist), Other)
    /\ UNCHANGED logins

\* irc.motd on network i: onNetworkMotd up to its first await, then the
\* second handler.  A call that passes the two guards is a login sequence.
Motd ==
    \E i \in Indices(networks) :
        LET proceeds == bnc.enabled /\ capBouncer(networks[i])
            login == Len(logins) + 1
            S0 == [Store EXCEPT !.networks[i].motd = TRUE]
            S1 == onNetworkMotd(S0, i, login)
            S2 == IF listening THEN onMotdWho(S1, i) ELSE S1
        IN /\ networks[i].state = "connected"
           /\ ~networks[i].motd
           /\ proceeds => Len(logins) < MaxLogins
           /\ Commit(S2,
                     [hist EXCEPT !.reported =
                         IF proceeds /\ hasNetwork(networks[i])
                         THEN @ \cup {i} ELSE @],
                     [Event("irc.motd", i) EXCEPT
                         !.login = IF proceeds THEN login ELSE Null])
           /\ logins' = IF proceeds
                        THEN Append(logins, [net |-> i, status |-> "running",
                                             list |-> <<>>, synced |-> {},
                                             lost |-> 0])
                        ELSE logins

\* The relay answers a getBuffers: syncBncNetwork goes on after its await,
\* and after it onNetworkMotd, when that is what awaited it.
BuffersReply(replies) ==
    \E p \in pending, buffers \in replies :
        LET S0 == [Store EXCEPT !.pending = @ \ {p}]
            S1 == syncBncNetworkApply(S0, p.net, buffers)
            S2 == IF p.cont = "motd"
                  THEN initAndAddNetworksCall(S1, p.net, p.login)
                  ELSE S1
        IN /\ p.kind = "getBuffers"
           /\ Commit(S2,
                     [hist EXCEPT !.lastSync = [net |-> p.net, reply |-> buffers]],
                     [op |-> "buffers", net |-> p.net, login |-> p.login,
                      reply |-> buffers, cont |-> p.cont, saved |-> "no",
                      before |-> networks[p.net].buffers,
                      again |-> hist.lastSync = [net |-> p.net, reply |-> buffers]])
           /\ logins' = IF p.cont = "add"
                        THEN [logins EXCEPT ![p.login].synced = @ \cup {p.net}]
                        ELSE logins

\* A getBuffers fails: the awaiting onNetworkMotd ends in failure; nobody
\* awaits the promise of addNetworkToState.
BuffersFail ==
    \E p \in pending :
        /\ p.kind = "getBuffers"
        /\ Commit([Store EXCEPT !.pending = @ \ {p}], hist,
                  [Event("buffersFailed", p.net) EXCEPT
                      !.login = p.login, !.ret = p.cont])
        /\ logins' = IF p.cont = "motd"
                     THEN [logins EXCEPT ![p.login].status = "rejected"]
                     ELSE [logins EXCEPT ![p.login].lost = @ + 1]

\* What the relay reports of its network `name`
RelayNet(name) ==
    [name |-> name, host |-> "irc.upstream", port |-> 6697, tls |-> TRUE,
     nick |-> "rnick", user |-> "ruser", password |-> <<>>]

\* The networks of the list that addNetworkToState will have to create
Missing(list) ==
    {k \in Indices(list) : getNetworkFromBncName(networks, list[k]) = Null}

\* The relay answers getNetworks with the networks named in list:
\* initAndAddNetworks goes on after its await, and onNetworkMotd ends.
NetworksReply(limit, lists) ==
    \E p \in pending, list \in lists :
        LET S0 == [Store EXCEPT !.pending = @ \ {p}]
            S1 == initAndAddNetworksApply(
                      S0, p.net, p.login, [k \in Indices(list) |-> RelayNet(list[k])])
        IN /\ p.kind = "getNetworks"
           /\ Len(networks) + Cardinality(Missing(list)) <= limit
           /\ Commit(S1,
                     [hist EXCEPT !.reported = @ \cup
                         {getNetworkFromBncName(S1.networks, list[k]) :
                             k \in Indices(list)}],
                     [Event("networks", p.net) EXCEPT
                         !.login = p.login, !.reply = list])
           /\ logins' = [logins EXCEPT ![p.login].status = "resolved",
                                       ![p.login].list = list]

NetworksFail ==
    \E p \in pending :
        /\ p.kind = "getNetworks"
        /\ Commit([Store EXCEPT !.pending = @ \ {p}], hist,
                  [Event("networksFailed", p.net) EXCEPT !.login = p.login])
        /\ logins' = [logins EXCEPT ![p.login].status = "rejected"]

\* The relay answers a create-network command, with success or with failure
RelayAnswer ==
    /\ \E i \in hist.inflight, ok \in BOOLEAN :
          Commit(Store,
                 [hist EXCEPT !.inflight = @ \ {i},
                              !.acked = IF ok THEN @ \cup {i} ELSE @],
                 Other)
    /\ UNCHANGED logins

\* Time passes, by one debounce wait, while no debounce timer is due
TickMs == DebounceWait

Tick ==
    /\ \E k \in Indices(debounced) : debounced[k] > 0
    /\ \A k \in Indices(debounced) : debounced[k] # 0
    /\ Commit([Store EXCEPT !.debounced =
                  [k \in Indices(debounced) |->
                      IF debounced[k] > 0 THEN debounced[k] - TickMs
                      ELSE debounced[k]]],
              hist, Other)
    /\ UNCHANGED logins

\* A debounce timer is due: the debounced saveState runs
DebouncedSave ==
    /\ \E k \in Indices(debounced) :
          /\ debounced[k] = 0
          /\ LET S == saveState([Store EXCEPT !.debounced[k] = Idle])
             IN Commit(S, hist,
                       [Event("debounced", k) EXCEPT !.saved = Saved(S)])
    /\ UNCHANGED logins

-----------------------------------------------------------------------------
(* The whole engine *)

\* A network as the user first enters it: the relay's address and the
\* user's relay login, which names no network
BareInfo ==
    [EmptyInfo EXCEPT !.server = RelayServer, !.password = <<"u", ":", "s">>]

\* The start of a session: relaying is turned on, the user enters the first
\* network and connects it, and its login sequence runs.
NextBoot ==
    \/ Enable
    \/ NewNetwork(2, {"Network"}, {"alice"}, {BareInfo})
    \/ NetConnecting(2)
    \/ NetConnected({TRUE})
    \/ Motd
    \/ NetworksReply(1, {<<>>})

SpecBoot == Init /\ [][NextBoot]_vars

\* Where that leaves the engine: the first network is the relay's bare
\* control connection, hidden, and its login sequence has resolved; the
\* relay had no network to report; one debounced watch is installed.
BootedEngine ==
    /\ networks = <<[NetworkRec("Network1", "alice", BareInfo) EXCEPT
                       !.hidden = TRUE, !.state = "connected", !.motd = TRUE,
                       !.cap = TRUE]>>
    /\ controllerNetwork = Null
    /\ bnc = [InitBnc EXCEPT !.enabled = TRUE, !.username = <<"u">>,
                             !.password = <<"s">>, !.server = RelayServer,
                             !.registered = TRUE]
    /\ listening = TRUE
    /\ networksSnapshot = [b \in {} |-> Null]
    /\ debounced = <<Idle>>
    /\ pending = {}
    /\ logins = <<[net |-> 1, status |-> "resolved", list |-> <<>>,
                   synced |-> {}, lost |-> 0]>>
    /\ out = <<>>

\* The same, as the start of what follows: the history begins here.
Booted ==
    /\ BootedEngine
    /\ hist = [InitHist EXCEPT !.created = <<0>>]
    /\ ev = Other

-----------------------------------------------------------------------------
(* Saving: the snapshot store, saveState and the debounced watch (C5-C7) *)

\* After the start of the session the user adds networks, edits them,
\* connects and disconnects; time passes and the debounced saveState runs;
\* the relay answers the create-network commands.
NextSave ==
    \/ NewNetwork(MaxSaveActions, {"Network"}, {"", "alice"}, {EmptyInfo, BareInfo})
    \/ EditNetwork(MaxSaveActions, "server", {"irc.a"})
    \/ EditNetwork(MaxSaveActions, "name", {"Home"})
    \/ EditNetwork(MaxSaveActions, "nick", {"bob"})
    \/ NetConnecting(MaxSaveActions)
    \/ NetConnected({TRUE})
    \/ NetDisconnected(MaxSaveActions)
    \/ Motd
    \/ BuffersReply({<<>>})
    \/ NetworksReply(MaxSaveActions, {<<"freenode">>})
    \/ RelayAnswer
    \/ Tick
    \/ DebouncedSave

SpecSave == Booted /\ [][NextSave]_vars

\* A step in which saveState() ran with a controller
SaveRan == ev'.saved = "ran"

\* The network at index i has an entry in the snapshot store
HasEntry(i) == networks[i].bncname \in DOMAIN networksSnapshot

\* The commands of one kind the step sent for the network at index i
SentFor(cmd, i) ==
    {k \in Indices(out') : out'[k].cmd = cmd /\ out'[k].net = i}

\* saveState() passes over the controller's own bare connection
PassedOver(i) == controllerNetwork' = i /\ ~hasNetwork(networks[i])

\* The fields of network i that differ from its snapshot entry
Differing(i) ==
    LET n == networks[i]
        entry == networksSnapshot[n.bncname]
    IN (IF n.server # entry.host THEN {"host"} ELSE {})
       \cup (IF n.port # entry.port THEN {"port"} ELSE {})
       \cup (IF n.tls # entry.tls THEN {"tls"} ELSE {})
       \cup (IF n.password # entry.password THEN {"password"} ELSE {})
       \cup (IF n.nick # entry.nick THEN {"nick"} ELSE {})
       \cup (IF n.username # entry.username THEN {"user"} ELSE {})

\* C5: when saveState() runs with a controller, the update command for a
\* network that has a snapshot entry carries exactly the fields among host,
\* port, tls, password, nick and user whose value differs from the entry.
C5_UpdateCarriesExactlyChanges ==
    [][\A i \in Indices(networks) :
          /\ (SaveRan /\ HasEntry(i) /\ ~PassedOver(i)) =>
                Cardinality(SentFor("saveNetwork", i)) = 1
          /\ \A k \in SentFor("saveNetwork", i) :
                /\ SaveRan /\ HasEntry(i)
                /\ DOMAIN out'[k].tags = Differing(i)
                /\ out'[k].name = networks[i].bncname
                /\ \A f \in Differing(i) :
                      out'[k].tags[f] = Current(networks[i], f)]_vars

\* An update went out that carries the nick alone, the nick having changed
C5_Witness ==
    /\ ev.saved = "ran"
    /\ \E k \in Indices(out) :
          /\ out[k].cmd = "saveNetwork"
          /\ DOMAIN out[k].tags = {"nick"}
          /\ out[k].tags["nick"] = "bob"

\* host, port and nick are all set
Ready(i) ==
    networks[i].server # "" /\ networks[i].port # 0 /\ networks[i].nick # ""

\* C6 as stated: whenever saveState() is called, it sends create-network for
\* a network with no snapshot exactly if host, port and nick are all set; a
\* network is created once at most, and once created its bncname is its name.
C6_CreatesIffReady ==
    [][/\ ev'.saved # "no" =>
            \A i \in Indices(networks) :
                ~HasEntry(i) => (SentFor("addNetwork", i) # {} <=> Ready(i))
       /\ \A i \in Indices(networks') :
            /\ hist'.created[i] <= 1
            /\ hist'.created[i] = 1 => networks'[i].bncname = networks'[i].name
      ]_vars

\* C6 as amended: a saveState() that runs with a controller sends
\* create-network for a network with no snapshot, other than the controller's
\* own bare connection, exactly if host, port and nick are all set; no
\* saveState() creates a network whose nick is missing, and none creates
\* without a controller; no network is ever created twice; the save that
\* creates a network sets its bncname to its name, and no step changes the
\* bncname after.
C6_CreatesIffReadyWithController ==
    [][/\ SaveRan =>
            \A i \in Indices(networks) :
                (~HasEntry(i) /\ ~PassedOver(i)) =>
                    /\ SentFor("addNetwork", i) # {} <=> Ready(i)
                    /\ Ready(i) => hist'.created[i] = 1
       /\ \A i \in Indices(networks) :
            /\ SentFor("addNetwork", i) # {} =>
                  /\ SaveRan /\ Ready(i)
                  /\ networks'[i].bncname = networks[i].name
                  /\ networks'[i].name = networks[i].name
            /\ hist.created[i] = 1 => networks'[i].bncname = networks[i].bncname
       /\ \A i \in Indices(networks') : hist'.created[i] <= 1
      ]_vars

\* A network whose nick came by an edit has been created by this save, once,
\* and goes by its name on the relay
C6_Witness ==
    /\ ev.saved = "ran"
    /\ \E k \in Indices(out) :
          /\ out[k].cmd = "addNetwork"
          /\ out[k].tags["nick"] = "bob"
          /\ hist.created[out[k].net] = 1
          /\ networks[out[k].net].bncname = networks[out[k].net].name

\* The relay has the network: it reported it, or it has not refused the
\* create-network command sent for it
Committed(i) ==
    \/ i \in hist.reported
    \/ i \in hist.acked
    \/ i \in hist.inflight

\* C7 as stated: a network has a snapshot entry exactly if it has been
\* committed to the relay with success.
C7_EntryIffCommitted ==
    \A i \in Indices(networks) : HasEntry(i) <=> Committed(i)

\* C7 as amended: a network has a snapshot entry once a create-network command
\* has been sent for it, whatever the relay answers, and only if one has been
\* sent for it or the relay reported the network.
C7_EntryIffSent ==
    \A i \in Indices(networks) :
        /\ hist.created[i] >= 1 => HasEntry(i)
        /\ HasEntry(i) => (hist.created[i] >= 1 \/ i \in hist.reported)

\* Some network has its entry only because the relay reported it
C7_ReportedEntry ==
    \E i \in Indices(networks) :
        HasEntry(i) /\ hist.created[i] = 0 /\ i \in hist.reported

\* The relay refused a create-network command and the network has its entry
C7_Witness ==
    \E i \in Indices(networks) :
        /\ hist.created[i] = 1
        /\ i \notin hist.acked /\ i \notin hist.inflight
        /\ HasEntry(i)


-----------------------------------------------------------------------------
(* Controller election under connection events (C1, C2) *)

PlainInfo == [EmptyInfo EXCEPT !.server = RelayServer, !.password = <<"u", ":", "s">>]

NextCtl ==
    \/ NewNetwork(MaxCtlActions, {"net"}, {"alice"}, {PlainInfo})
    \/ NetConnecting(MaxCtlActions)
    \/ NetConnected(BOOLEAN)
    \/ NetDisconnected(MaxCtlActions)
    \/ GetController

SpecCtl == Init /\ [][NextCtl]_vars

Qualifies(i) == networks[i].state = "connected" /\ networks[i].cap

\* The first network of the list that is connected with the capability
FirstQualifying ==
    IF \E i \in Indices(networks) : Qualifies(i)
    THEN CHOOSE i \in Indices(networks) :
            Qualifies(i) /\ \A j \in 1..(i - 1) : ~Qualifies(j)
    ELSE Null

\* C1: when getController() is called with no valid cached controller (none,
\* or one that is not both connected and bouncer-capable), it returns the
\* first network of the list that is connected with the capability, and null
\* when there is none.
C1_ElectsFirstQualifying ==
    (ev.op = "getController" /\ ~(ev.cached # Null /\ Qualifies(ev.cached)))
        => ev.ret = FirstQualifying

\* C2: a network returned by getController() is, when it is returned,
\* connected and bouncer-capable.
C2_ControllerValid ==
    (ev.op = "getController" /\ ev.ret # Null) => Qualifies(ev.ret)

\* The election with nothing cached, or a cached controller that is no longer
\* connected: the scan decides.
CtlScanWhenCacheNotConnected ==
    (ev.op = "getController"
     /\ (ev.cached = Null \/ networks[ev.cached].state # "connected"))
        => ev.ret = FirstQualifying

\* Networks [A disconnected, B connected without the capability, C connected
\* with it]: C is elected.
CtlExampleElectsThird ==
    /\ Len(networks) = 3
    /\ networks[1].state = "disconnected"
    /\ networks[2].state = "connected" /\ ~networks[2].cap
    /\ Qualifies(3)
    /\ ev.op = "getController" /\ ev.ret = 3

-----------------------------------------------------------------------------
(* Buffer reconciliation (C3, C4) *)

NameA == <<Hash, LowerA>>
NameUpperA == <<Hash, UpperA>>
NameB == <<Hash, LowerB>>
NameQuery == <<LowerB>>
NameServer == <<Star>>

LocalNames == {NameA, NameB, NameQuery, NameServer}

\* The buffer lists a network can hold before a login: up to MaxBuffers
\* buffers of different names, in any order
LocalBufferLists ==
    {[k \in Indices(names) |-> NewBuffer(names[k])] :
        names \in {q \in UNION {[1..n -> LocalNames] : n \in 0..MaxBuffers} :
                      \A j, k \in Indices(q) : j # k => q[j] # q[k]}}

RemoteBuffers ==
    {[name |-> NameUpperA, joined |-> TRUE, seen |-> 1000, topic |-> "t"],
     [name |-> NameB, joined |-> FALSE, seen |-> 0, topic |-> ""],
     [name |-> NameQuery, joined |-> TRUE, seen |-> 0, topic |-> ""]}

\* What getBuffers can answer: up to MaxRemote buffers of different names
SyncReplies ==
    {q \in UNION {[1..n -> RemoteBuffers] : n \in 0..MaxRemote} :
        \A j, k \in Indices(q) : j # k => q[j] # q[k]}

UpstreamInfo ==
    [EmptyInfo EXCEPT !.server = RelayServer, !.bncname = "freenode",
                      !.password = <<"u", "/", "freenode", ":", "s">>]

\* Relaying is on and one network is connected through the relay to its
\* upstream freenode, holding the buffers the user has opened so far.
InitSync ==
    /\ \E buffers \in LocalBufferLists :
          networks = <<[NetworkRec("freenode", "alice", UpstreamInfo) EXCEPT
                          !.state = "connected", !.cap = TRUE,
                          !.tag = "freenode", !.buffers = buffers]>>
    /\ controllerNetwork = Null
    /\ bnc = [InitBnc EXCEPT !.enabled = TRUE, !.server = RelayServer]
    /\ listening = TRUE
    /\ networksSnapshot = [b \in {} |-> Null]
    /\ debounced = <<>>
    /\ pending = {}
    /\ logins = <<>>
    /\ out = <<>>
    /\ hist = InitHist
    /\ ev = Event("new", Null)

NextSync ==
    \/ Motd
    \/ BuffersReply(SyncReplies)
    \/ NetworksReply(1, {<<"freenode">>})

SpecSync == InitSync /\ [][NextSync]_vars

SameName(a, b) == toLowerCase(a.name) = toLowerCase(b.name)

\* C3: a run of syncBncNetwork with the list R right after a run on the same
\* network with the same R leaves the network's buffers as they were: none
\* added, none removed, no field changed.
C3_SecondRunChangesNothing ==
    (ev.op = "buffers" /\ ev.again) => networks[ev.net].buffers = ev.before

\* C4: after one run of syncBncNetwork with the list R the channel and query
\* buffers of the network are exactly the names of R, compared without case,
\* and every buffer of another kind that was there before is still there.
C4_OneRunConverges ==
    ev.op = "buffers" =>
        LET local == networks[ev.net].buffers
        IN /\ \A k \in Indices(local) :
                  (isChannel(local[k]) \/ isQuery(local[k]))
                      => \E j \in Indices(ev.reply) : SameName(local[k], ev.reply[j])
           /\ \A j \in Indices(ev.reply) :
                  \E k \in Indices(local) : SameName(local[k], ev.reply[j])
           /\ \A k \in Indices(ev.before) :
                  (~isChannel(ev.before[k]) /\ ~isQuery(ev.before[k]))
                      => \E j \in Indices(local) : local[j] = ev.before[k]

-----------------------------------------------------------------------------
(* The save scheduler (C8), under SpecSave *)

\* The scheduled saves that are due
Due == {k \in Indices(debounced) : debounced[k] = 0}

\* C8: a quiet period of 2000 ms after a burst of mutations makes one
\* scheduled saveState() due, however many login sequences have completed.
C8_OneSavePerBurst == Cardinality(Due) <= 1

\* The scheduler is armed once
C8_ArmedOnce == Len(debounced) <= 1

\* While mutations keep arriving no scheduled save becomes due: a handler
\* that changed the networks leaves every armed timer at the full wait.
C8_NoneDuringBurst ==
    [][WatchView(networks') # WatchView(networks) =>
        \A k \in Indices(debounced) : debounced'[k] = DebounceWait]_vars

-----------------------------------------------------------------------------
(* Naming: the network.new handler (C9) *)

\* A network the user enters with the login of the relay's network Network1
TunnelInfo ==
    [EmptyInfo EXCEPT !.server = RelayServer,
                      !.password = <<"u", "/", "Network1", ":", "s">>]

\* Networks are added, before relaying is turned on (they keep the name
\* they were given) and after (the handler names them); they connect, and
\* the login sequence of one that has an upstream gives it its bncname.
NextName ==
    \/ Enable
    \/ NewNetwork(MaxNameActions, {"Home", "Network1", "Network3"}, {"alice"},
                  {TunnelInfo})
    \/ NetConnecting(MaxNameActions)
    \/ NetConnected({TRUE})
    \/ Motd

SpecName == Init /\ [][NextName]_vars

\* The handler has just named the network at index ev.net
Named == ev.op = "network.new" /\ listening /\ networks[ev.net].bncname = ""

\* Another network than i has Network<k> as its name or as its bncname
Taken(i, k) ==
    \E j \in Indices(networks) \ {i} :
        networks[j].name = NetworkName(k) \/ networks[j].bncname = NetworkName(k)

\* C9: the network.new handler names a network that has no bncname
\* Network<k>, k the smallest positive integer for which no other network has
\* Network<k> as its name or bncname; no other network has the name after.
C9_AllocatesSmallestFree ==
    Named =>
        \E k \in 1..Len(networks) :
            /\ networks[ev.net].name = NetworkName(k)
            /\ ~Taken(ev.net, k)
            /\ \A m \in 1..(k - 1) : Taken(ev.net, m)

\* The same of the networks that no other network's bncname alone keeps from
\* a name: where every Network<k> in use as a bncname is in use as a name.
C9_SmallestFreeAmongNames ==
    (Named /\ \A j \in Indices(networks) \ {ev.net} :
                  networks[j].bncname \in {"", networks[j].name}) =>
        \E k \in 1..Len(networks) :
            /\ networks[ev.net].name = NetworkName(k)
            /\ ~Taken(ev.net, k)
            /\ \A m \in 1..(k - 1) : Taken(ev.net, m)

\* Network1 and Network3 exist and the new network is named Network2
C9_ExampleSecond ==
    /\ Named
    /\ Len(networks) = 3
    /\ networks[1].name = "Network1" /\ networks[2].name = "Network3"
    /\ networks[3].name = "Network2"

-----------------------------------------------------------------------------
(* The login sequence as a whole (C10) *)

\* A session with two networks kept from an earlier one: the relay's bare
\* control connection and freenode, which holds the buffers the user had
\* open; relaying is on and one of the two is connected.
InitLogin ==
    /\ \E buffers \in LocalBufferLists, up \in 1..2 :
          networks =
              <<[NetworkRec("Network1", "alice", BareInfo) EXCEPT
                   !.state = IF up = 1 THEN "connected" ELSE "disconnected",
                   !.cap = (up = 1)],
                [NetworkRec("freenode", "alice", UpstreamInfo) EXCEPT
                   !.state = IF up = 2 THEN "connected" ELSE "disconnected",
                   !.cap = (up = 2),
                   !.tag = IF up = 2 THEN "freenode" ELSE "",
                   !.buffers = buffers]>>
    /\ controllerNetwork = Null
    /\ bnc = [InitBnc EXCEPT !.enabled = TRUE, !.server = RelayServer]
    /\ listening = TRUE
    /\ networksSnapshot = [b \in {} |-> Null]
    /\ debounced = <<>>
    /\ pending = {}
    /\ logins = <<>>
    /\ out = <<>>
    /\ hist = [InitHist EXCEPT !.created = <<0, 0>>]
    /\ ev = Event("new", Null)

\* The relay holds one buffer list all along, the same for each network
RelayBuffers ==
    IF hist.lastSync.net = Null THEN SyncReplies ELSE {hist.lastSync.reply}

\* The networks log in, the other one once the user connects it; the relay
\* answers every request.
NextLogin ==
    \/ Motd
    \/ BuffersReply(RelayBuffers)
    \/ NetworksReply(MaxLoginNetworks, {<<"freenode">>, <<"freenode", "libera">>})
    \/ NetConnecting(1)
    \/ NetConnected({TRUE})

SpecLogin == InitLogin /\ [][NextLogin]_vars

\* Login sequence l has ended well and none of its requests is unanswered
LoginDone(l) ==
    /\ logins[l].status = "resolved"
    /\ logins[l].lost = 0
    /\ \A p \in pending : p.login # l

\* The buffers agree with the relay's list: every name of the list is there,
\* and no channel or query that the list does not name
Reconciled(buffers, list) ==
    /\ \A r \in Range(list) : \E b \in Range(buffers) : SameName(b, r)
    /\ \A b \in Range(buffers) :
          (isChannel(b) \/ isQuery(b)) =>
              \E r \in Range(list) : SameName(b, r)

\* The local networks that go by the relay's name for a network
LocalsOf(name) == {i \in Indices(networks) : networks[i].bncname = name}

\* C10: when the login sequence of network N has ended and the relay has
\* answered all its requests, every network of the relay's list has one local
\* network, whose buffers are reconciled with the relay's buffer list; N is
\* hidden exactly if it has no upstream; registered is true.
C10_LoginComplete ==
    \A l \in Indices(logins) :
        (ev.login = l /\ LoginDone(l)) =>
            /\ \A k \in Indices(logins[l].list) :
                  /\ Cardinality(LocalsOf(logins[l].list[k])) = 1
                  /\ \A i \in LocalsOf(logins[l].list[k]) :
                        Reconciled(networks[i].buffers, hist.lastSync.reply)
            /\ networks[logins[l].net].hidden <=> ~hasNetwork(networks[logins[l].net])
            /\ bnc.registered

\* All of it but the buffers
C10_NetworksComplete ==
    \A l \in Indices(logins) :
        (ev.login = l /\ LoginDone(l)) =>
            /\ \A k \in Indices(logins[l].list) :
                  Cardinality(LocalsOf(logins[l].list[k])) = 1
            /\ networks[logins[l].net].hidden <=> ~hasNetwork(networks[logins[l].net])
            /\ bnc.registered

-----------------------------------------------------------------------------
(* Credentials: the tunnel password and its decoding (C11) *)

\* The strings of up to MaxPieces pieces: text, and the two separators
Pieces == {"a", "/", ":"}

Strings == UNION {[1..n -> Pieces] : n \in 0..MaxPieces}

\* A relay username holds no separator: the relay reads the login up to '/'
Usernames == {u \in Strings : \A k \in Indices(u) : u[k] \notin {"/", ":"}}

\* Relaying is configured with a username and a secret, and one network is
\* about to connect, under a relay name or under none.
InitCred ==
    /\ \E u \in Usernames, secret \in Strings, n \in {"", "freenode"} :
          /\ bnc = [InitBnc EXCEPT !.enabled = TRUE, !.server = RelayServer,
                                   !.username = u, !.password = secret]
          /\ networks = <<NetworkRec("freenode", "alice",
                                     [EmptyInfo EXCEPT !.bncname = n])>>
    /\ controllerNetwork = Null
    /\ listening = TRUE
    /\ networksSnapshot = [b \in {} |-> Null]
    /\ debounced = <<>>
    /\ pending = {}
    /\ logins = <<>>
    /\ out = <<>>
    /\ hist = [InitHist EXCEPT !.created = <<0>>]
    /\ ev = Event("new", Null)

\* The first network.connecting handler writes the outgoing password
CredRewrite ==
    /\ ev.op = "new"
    /\ Commit(onConnectingRewrite(Store, 1), hist, Event("rewrite", 1))
    /\ UNCHANGED logins

\* The login sequence decodes a password (lines 112-115): here the one the
\* handler wrote
CredDecode ==
    /\ ev.op = "rewrite"
    /\ Commit(Store, hist,
              [Event("decode", 1) EXCEPT
                  !.ret = [username |-> LoginUsername(networks[1].options.password),
                           password |-> LoginPassword(networks[1].options.password)]])
    /\ UNCHANGED logins

NextCred == CredRewrite \/ CredDecode

SpecCred == InitCred /\ [][NextCred]_vars

\* A tunnel password was built (a secret is configured) and decoded
Decoded == ev.op = "decode" /\ Truthy(bnc.password)

\* C11: the password built from username u, network name n and secret s
\* decodes to username u and to the whole of s.
C11_RoundTrip ==
    Decoded => (ev.ret.username = bnc.username /\ ev.ret.password = bnc.password)

\* The same where the secret holds no ':'
C11_RoundTripPlain ==
    (Decoded /\ \A k \in Indices(bnc.password) : bnc.password[k] # ":") =>
        (ev.ret.username = bnc.username /\ ev.ret.password = bnc.password)

-----------------------------------------------------------------------------
(* Networks of the relay and networks of the user side by side (C12, C13) *)

\* After the start of the session the user adds networks, connects and
\* disconnects; networks log in again; the relay, which holds a network
\* Network2 of its own, answers; the debounced saveState runs.
NextMerge ==
    \/ NewNetwork(MaxMergeActions, {"Network"}, {"alice"}, {BareInfo})
    \/ NetConnecting(MaxMergeActions)
    \/ NetConnected({TRUE})
    \/ NetDisconnected(MaxMergeActions)
    \/ Motd
    \/ BuffersReply({<<>>})
    \/ NetworksReply(MaxMergeActions + 1, {<<"Network2">>})
    \/ Tick
    \/ DebouncedSave

SpecMerge == Booted /\ [][NextMerge]_vars

\* C12: no two local networks have the same non-empty bncname.
C12_NoDuplicateBncname ==
    \A i, j \in Indices(networks) :
        (i # j /\ networks[i].bncname # "") =>
            networks[i].bncname # networks[j].bncname

\* The network at index i is a bare control connection: it logged in with the
\* bouncer capability and no upstream, which is what marks it hidden
BareControl(i) == networks[i].hidden

\* C13: saveState() sends neither create-network nor an update for a bare
\* control connection, whichever network is the controller and whether the
\* bare connection is connected or not.
C13_BareNeverPersisted ==
    \A k \in Indices(out) :
        out[k].cmd \in {"addNetwork", "saveNetwork"} => ~BareControl(out[k].net)

-----------------------------------------------------------------------------
(* About to connect: rewrite, save, connect (C14, C17, C20) *)

\* A session from its start: relaying is turned on; the user adds networks,
\* with the relay's login or with the login of the relay's network Network1,
\* and connects them; they log in, and the relay lists its Network1.
NextConnect ==
    \/ Enable
    \/ NewNetwork(MaxConnectActions, {"Network"}, {"alice"}, {BareInfo, TunnelInfo})
    \/ NetConnecting(MaxConnectActions)
    \/ NetConnected({TRUE})
    \/ Motd
    \/ BuffersReply({<<>>})
    \/ NetworksReply(MaxConnectActions, {<<"Network1">>})

SpecConnect == Init /\ [][NextConnect]_vars

\* The step is an about-to-connect event that the engine's handlers take
Connecting == ev'.op = "network.connecting" /\ listening /\ bnc.enabled

\* The commands of one kind the step sent, by their place in the output
Places(cmd) == {k \in Indices(out') : out'[k].cmd = cmd}

\* The connection of network i is as the rewriter leaves it, the password
\* built from the bncname that network i had when the event came
Rewritten(i) ==
    /\ networks'[i].options.host = bnc.server
    /\ networks'[i].options.port = bnc.port
    /\ networks'[i].options.tls = bnc.tls
    /\ networks'[i].options.path = bnc.path
    /\ networks'[i].direct = bnc.direct
    /\ networks'[i].options.password =
          IF Truthy(bnc.password)
          THEN TunnelPassword(bnc.username, networks[i].bncname, bnc.password)
          ELSE networks[i].password

\* C14: at an about-to-connect event for network N with relaying enabled, N's
\* host, port, tls, password, direct and path have been written from the
\* BouncerConfig as it was before the immediate saveState(), and the connect
\* instruction, sent for N alone, comes after the commands of that save; no
\* other step sends a connect instruction.
C14_RewriteBeforeConnect ==
    [][/\ Connecting => Rewritten(ev'.net)
       /\ \A k \in Places("BOUNCER connect") :
             /\ Connecting /\ ev'.saved = "ran"
             /\ out'[k].net = ev'.net
             /\ Rewritten(ev'.net)
             /\ \A j \in Places("addNetwork") \cup Places("saveNetwork") : j < k
      ]_vars

\* A new network has been rewritten, created by the immediate save, and the
\* controller told to connect it, in that order
C14_Witness ==
    /\ ev.op = "network.connecting" /\ ev.saved = "ran"
    /\ \E j, k \in Indices(out) :
          /\ j < k
          /\ out[j].cmd = "addNetwork" /\ out[j].net = ev.net
          /\ out[k].cmd = "BOUNCER connect" /\ out[k].net = ev.net
    /\ networks[ev.net].options.host = bnc.server
    /\ Truthy(bnc.password)

-----------------------------------------------------------------------------
(* Requests that fail (C15) *)

\* The login sequences of the session of InitLogin, where the relay answers a
\* request or fails it
NextFail ==
    \/ Motd
    \/ BuffersReply(RelayBuffers)
    \/ BuffersFail
    \/ NetworksReply(MaxLoginNetworks, {<<"freenode">>, <<"freenode", "libera">>})
    \/ NetworksFail

SpecFail == InitLogin /\ [][NextFail]_vars

\* A request of a login sequence has just failed
Failed == ev.op \in {"buffersFailed", "networksFailed"}

\* C15: when a request started by a login sequence fails - the network list,
\* the buffer list of the network logging in, or the buffer list of a network
\* of the relay's list - the login sequence ends in failure.
C15_FailureDelivered ==
    Failed => logins[ev.login].status = "rejected"

\* The same of the requests the login sequence awaits: the network list and
\* the buffer list of the network logging in
C15_AwaitedFailureDelivered ==
    (Failed /\ ~(ev.op = "buffersFailed" /\ ev.ret = "add")) =>
        logins[ev.login].status = "rejected"

-----------------------------------------------------------------------------
(* Reconciliations pending at one time (C16), under SpecLogin *)

\* The reconciliations between their request and its answer
Reconciling == {p \in pending : p.kind = "getBuffers"}

\* C16: two reconciliations pending at the same time are of different
\* networks.
C16_PendingDisjoint ==
    \A p, q \in Reconciling : p # q => p.net # q.net

\* The same of the reconciliations of one login sequence
C16_PendingDisjointWithinLogin ==
    \A p, q \in Reconciling : (p # q /\ p.login = q.login) => p.net # q.net

-----------------------------------------------------------------------------
(* The relay name once set (C17), under SpecConnect *)

\* C17: once a network's bncname is non-empty no step changes it, and no
\* step sends a create-network command for that network.
C17_BncnameStable ==
    [][\A i \in Indices(networks) :
          networks[i].bncname # ""
             => /\ networks'[i].bncname = networks[i].bncname
                /\ SentFor("addNetwork", i) = {}]_vars

\* The same of the networks that have a snapshot entry
C17_BncnameStableWithEntry ==
    [][\A i \in Indices(networks) :
          (networks[i].bncname # "" /\ HasEntry(i))
             => /\ networks'[i].bncname = networks[i].bncname
                /\ SentFor("addNetwork", i) = {}]_vars

-----------------------------------------------------------------------------
(* Edits and the snapshot store (C18), under SpecSave *)

\* The step changes field f of the snapshot entry of the network at index i
Absorbed(i, f) ==
    LET b == networks[i].bncname
    IN /\ HasEntry(i)
       /\ networks'[i].bncname = b
       /\ b \in DOMAIN networksSnapshot'
       /\ Snapshotted(networksSnapshot'[b], f) # Snapshotted(networksSnapshot[b], f)

\* The step sends the relay the entry's new value of field f of network i
SentValue(i, f) ==
    \E k \in SentFor("saveNetwork", i) \cup SentFor("addNetwork", i) :
        /\ f \in DOMAIN out'[k].tags
        /\ out'[k].tags[f] = Snapshotted(networksSnapshot'[networks[i].bncname], f)

\* C18: a step that takes a changed host, port, tls, password, nick or user
\* of a network into its snapshot entry sends that value to the relay.
C18_NoLostEdits ==
    [][\A i \in Indices(networks) : \A f \in TagFields :
          Absorbed(i, f) => SentValue(i, f)]_vars

\* The same of the steps in which saveState() ran and did not pass over
\* the network
C18_NoLostEditsInSave ==
    [][\A i \in Indices(networks) : \A f \in TagFields :
          (Absorbed(i, f) /\ SaveRan /\ ~PassedOver(i)) => SentValue(i, f)]_vars

-----------------------------------------------------------------------------
(* The relay's address and credentials (C19), under SpecLogin *)

\* The fields of this.bnc the connection rewriter reads
Config(b) ==
    [server |-> b.server, port |-> b.port, tls |-> b.tls,
     username |-> b.username, password |-> b.password]

\* A login sequence has filled this.bnc
Populated == \E l \in Indices(logins) : logins[l].status = "resolved"

\* The network at index i was created from the relay's network list
FromRelayList(i) ==
    /\ i \in hist.reported
    /\ networks[i].bncname # ""
    /\ networks[i].server = RelayNet(networks[i].bncname).host

\* C19: once this.bnc is filled, no step of the login sequence of a network
\* created from the relay's list changes its server, port, tls, username or
\* password.
C19_ConfigStable ==
    [][\A i \in Indices(networks) :
          (Populated /\ FromRelayList(i) /\ ev'.net = i /\ ev'.login # Null)
             => Config(bnc') = Config(bnc)]_vars

\* The same of the login sequences of the networks the user entered with
\* the relay's address and login
C19_ConfigStableUserNetworks ==
    [][\A i \in Indices(networks) :
          (Populated /\ ~FromRelayList(i) /\ ev'.net = i /\ ev'.login # Null)
             => Config(bnc') = Config(bnc)]_vars

-----------------------------------------------------------------------------
(* The tunnel password and the network it names (C20), under SpecConnect *)

\* C20: in an about-to-connect step with relaying enabled and a relay
\* secret, every connect instruction names a non-empty relay network X, and
\* the password written for the connecting network is
\* "<bnc.username>/X:<bnc.password>" with that X.
C20_PasswordNamesConnected ==
    [][(Connecting /\ Truthy(bnc.password))
          => \A k \in Places("BOUNCER connect") :
                /\ out'[k].name # ""
                /\ networks'[out'[k].net].options.password =
                      TunnelPassword(bnc.username, out'[k].name, bnc.password)]_vars

\* The same of the networks that had their bncname before the step
C20_PasswordNamesConnectedNamed ==
    [][(Connecting /\ Truthy(bnc.password))
          => \A k \in Places("BOUNCER connect") :
                networks[out'[k].net].bncname # ""
                   => /\ out'[k].name # ""
                      /\ networks'[out'[k].net].options.password =
                            TunnelPassword(bnc.username, out'[k].name,
                                           bnc.password)]_vars

=============================================================================
